---- MODULE Spec2Model ----
(***************************************************************************)
(* A model of the inventory-and-report core of viperview.py:               *)
(*   get_package_sizes, generate_cyclonedx_sbom, format_text_output and    *)
(*   analyze_packages.                                                     *)
(*                                                                         *)
(* Python strings that the code transforms (project names, versions,       *)
(* paths, formatted numbers) are sequences of character codes, so that     *)
(* str.replace, str.lower, str(), path joining, f-string concatenation and *)
(* the lexicographic order used by sorted() are computed, not assumed.     *)
(* Fixed literals of the code that are never transformed are TLA+ strings. *)
(***************************************************************************)
EXTENDS Integers, Sequences, FiniteSets

\* ------------------------------------------------------------------ bounds

\* Largest number of distributions in pkg_resources.working_set.
MaxPkgs == 2

\* ------------------------------------------------------- the environment

\* Project names: "a-C", "B", "b".  "B" and "b" are equal ignoring case;
\* "B" sorts before "a-C" by code point and after it ignoring case.
Name_aC == <<97, 45, 67>>
Name_B == <<66>>
Name_b == <<98>>

\* Versions "1" and "2.3".
Ver_1 == <<49>>
Ver_23 == <<50, 46, 51>>

\* The install root "/s" (dist.location).
SitePackages == <<47, 115>>

\* The distributions the metadata registry may enumerate.
Dists ==
    { [project_name |-> Name_aC, version |-> Ver_1,  location |-> SitePackages],
      [project_name |-> Name_B,  version |-> Ver_1,  location |-> SitePackages],
      [project_name |-> Name_b,  version |-> Ver_23, location |-> SitePackages] }

\* Every enumeration of at most MaxPkgs distributions (repeats allowed).
WorkingSets == UNION { [1..n -> Dists] : n \in 0..MaxPkgs }

\* Directory entries.  kind: "file", "dir", "symlink" or "fifo"; target is
\* what a symlink points to ("file", "dir" or "broken"); size is st_size of
\* the file, or of a symlink's target file; unlinked marks a file removed
\* between the os.path.isfile and the os.path.getsize call; entries are the
\* children of a directory (or of the directory a symlink points to).
File(n) ==
    [kind |-> "file", target |-> "none", size |-> n, unlinked |-> FALSE, entries |-> <<>>]

Unlinked(n) ==
    [kind |-> "file", target |-> "none", size |-> n, unlinked |-> TRUE, entries |-> <<>>]

Dir(es) ==
    [kind |-> "dir", target |-> "none", size |-> 0, unlinked |-> FALSE, entries |-> es]

SymlinkToFile(n) ==
    [kind |-> "symlink", target |-> "file", size |-> n, unlinked |-> FALSE, entries |-> <<>>]

SymlinkToDir(es) ==
    [kind |-> "symlink", target |-> "dir", size |-> 0, unlinked |-> FALSE, entries |-> es]

BrokenSymlink ==
    [kind |-> "symlink", target |-> "broken", size |-> 0, unlinked |-> FALSE, entries |-> <<>>]

Fifo ==
    [kind |-> "fifo", target |-> "none", size |-> 0, unlinked |-> FALSE, entries |-> <<>>]

\* What a candidate path may be on disk: absent, not statable (stat raises
\* PermissionError), or a directory tree.
Absent == [kind |-> "absent", entries |-> <<>>]

Denied == [kind |-> "denied", entries |-> <<>>]

\* One 1024-byte file.
TreePlain == [kind |-> "dir", entries |-> << File(1024) >>]

\* Two files, one in a subdirectory, plus a symlink to a 512-byte file, a
\* symlink to a directory holding a 100-byte file, a dangling symlink and a
\* fifo.
TreeLinks ==
    [kind |-> "dir",
     entries |-> << File(2048), SymlinkToFile(512), Dir(<< File(4096), Fifo >>),
                    SymlinkToDir(<< File(100) >>), BrokenSymlink >>]

\* A file that disappears while the tree is being sized.
TreeRace == [kind |-> "dir", entries |-> << File(10), Unlinked(20) >>]

DiskEntries == {Absent, Denied, TreePlain, TreeLinks, TreeRace}

\* ---------------------------------------------------------------- strings

\* str.replace("-", "_")
RECURSIVE replace_hyphen(_)
replace_hyphen(s) ==
    IF s = <<>> THEN <<>>
    ELSE << IF Head(s) = 45 THEN 95 ELSE Head(s) >> \o replace_hyphen(Tail(s))

\* str.lower() on ASCII
RECURSIVE lower(_)
lower(s) ==
    IF s = <<>> THEN <<>>
    ELSE << IF Head(s) >= 65 /\ Head(s) <= 90 THEN Head(s) + 32 ELSE Head(s) >>
         \o lower(Tail(s))

\* str(n) for a non-negative integer
RECURSIVE Str(_)
Str(n) == IF n < 10 THEN << 48 + n >> ELSE Str(n \div 10) \o << 48 + (n % 10) >>

\* Python's < on str: lexicographic by code point.
RECURSIVE StrLess(_, _)
StrLess(a, b) ==
    IF b = <<>> THEN FALSE
    ELSE IF a = <<>> THEN TRUE
    ELSE IF Head(a) # Head(b) THEN Head(a) < Head(b)
    ELSE StrLess(Tail(a), Tail(b))

\* str(Path(root) / name)
JoinPath(root, name) == root \o << 47 >> \o name

\* The two directories get_package_sizes may look at for a distribution.
CandidateA(dist) == JoinPath(dist.location, replace_hyphen(dist.project_name))

CandidateB(dist) == JoinPath(dist.location, lower(dist.project_name))

Paths == { CandidateA(d) : d \in Dists } \cup { CandidateB(d) : d \in Dists }

VARIABLES
    fs,            \* the filesystem: candidate path -> what is there
    working_set,   \* pkg_resources.working_set, in enumeration order
    i,             \* index of the next distribution of the for loop
    packages,      \* get_package_sizes' list
    console,       \* everything printed, in order, with its stream
    output,        \* analyze_packages' output value
    artifact,      \* the serialized report and where it went
    pc             \* "scan", "done", or the exception that ended the call

vars == << fs, working_set, i, packages, console, output, artifact, pc >>

\* ------------------------------------------------------ get_package_sizes

\* os.DirEntry.is_dir(): follows symlinks.
is_dir(e) == e.kind = "dir" \/ (e.kind = "symlink" /\ e.target = "dir")

\* os.path.islink
islink(e) == e.kind = "symlink"

\* os.walk(top) with followlinks=False, flattened: the entries named by
\* `filenames`, directory by directory, top-down.  A symlink to a directory
\* is listed among the directories and is not descended into.
RECURSIVE os_walk(_), walk_subdirs(_)
os_walk(entries) ==
    SelectSeq(entries, LAMBDA e : ~is_dir(e))
        \o walk_subdirs(SelectSeq(entries, is_dir))

walk_subdirs(dirs) ==
    IF dirs = <<>> THEN <<>>
    ELSE (IF islink(Head(dirs)) THEN <<>> ELSE os_walk(Head(dirs).entries))
         \o walk_subdirs(Tail(dirs))

\* os.path.isfile(fp): os.stat follows symlinks, then S_ISREG.
isfile(e) == e.kind = "file" \/ (e.kind = "symlink" /\ e.target = "file")

\* The loop over the walked file names: size += os.path.getsize(fp) for
\* every fp that os.path.isfile accepts.  os.path.getsize raises OSError on
\* a file that is gone, which leaves the loop.
RECURSIVE add_sizes(_, _)
add_sizes(files, size) ==
    IF files = <<>> THEN [raised |-> FALSE, size |-> size]
    ELSE IF ~isfile(Head(files)) THEN add_sizes(Tail(files), size)
    ELSE IF Head(files).unlinked THEN [raised |-> TRUE, size |-> size]
    ELSE add_sizes(Tail(files), size + Head(files).size)

\* Path.exists(): TRUE for a directory, FALSE for a missing path; callers
\* test exists_raises first, the case where stat fails with an error that
\* Path.exists does not swallow.
exists(path) == fs[path].kind = "dir"

exists_raises(path) == fs[path].kind = "denied"

\* The record of no package (the shape of a record, for results without one).
NoRecord == [name |-> <<>>, version |-> <<>>, size_bytes |-> 0, location |-> <<>>]

\* resolve_location with the two candidates tried in the other order.
resolve_location_lower_first(dist) ==
    IF exists_raises(CandidateB(dist))
    THEN [raised |-> TRUE, location |-> CandidateB(dist)]
    ELSE [raised |-> FALSE,
          location |-> IF ~exists(CandidateB(dist)) THEN CandidateA(dist)
                       ELSE CandidateB(dist)]

\* Lines 16-18: the first candidate, or the second if the first does not
\* exist.
resolve_location(dist) ==
    IF exists_raises(CandidateA(dist))
    THEN [raised |-> TRUE, location |-> CandidateA(dist)]
    ELSE [raised |-> FALSE,
          location |-> IF ~exists(CandidateA(dist)) THEN CandidateB(dist)
                       ELSE CandidateA(dist)]

\* Lines 15-33, the body of the for loop for one distribution: outcome is
\* "record" (a record is appended), "none" (no directory, nothing happens)
\* or "raised" (the except clause prints).
try_dist(dist) ==
    LET r == resolve_location(dist) IN
    IF r.raised \/ exists_raises(r.location)
    THEN [outcome |-> "raised", record |-> NoRecord]
    ELSE IF ~exists(r.location)
    THEN [outcome |-> "none", record |-> NoRecord]
    ELSE LET w == add_sizes(os_walk(fs[r.location].entries), 0) IN
         IF w.raised
         THEN [outcome |-> "raised", record |-> NoRecord]
         ELSE [outcome |-> "record",
               record |-> [name |-> dist.project_name,
                           version |-> dist.version,
                           size_bytes |-> w.size,
                           location |-> r.location]]

\* Line 33: print(f"[!] Error reading {dist.project_name}: {e}"), which
\* goes to print's default stream.
Warning(dist) ==
    [stream |-> "stdout", kind |-> "[!] Error reading", text |-> dist.project_name]

\* The loop step with the try statement around the whole for loop: the
\* first error ends the enumeration.
get_package_sizes_step_try_outside ==
    /\ pc = "scan"
    /\ i <= Len(working_set)
    /\ LET dist == working_set[i]
           r == try_dist(dist)
       IN /\ packages' = IF r.outcome = "record" THEN Append(packages, r.record)
                         ELSE packages
          /\ console' = IF r.outcome = "raised" THEN Append(console, Warning(dist))
                        ELSE console
          /\ i' = IF r.outcome = "raised" THEN Len(working_set) + 1 ELSE i + 1
    /\ UNCHANGED << fs, working_set, output, artifact, pc >>

\* Lines 14-33: one iteration of `for dist in pkg_resources.working_set`.
get_package_sizes_step ==
    /\ pc = "scan"
    /\ i <= Len(working_set)
    /\ LET dist == working_set[i]
           r == try_dist(dist)
       IN /\ packages' = IF r.outcome = "record" THEN Append(packages, r.record)
                         ELSE packages
          /\ console' = IF r.outcome = "raised" THEN Append(console, Warning(dist))
                        ELSE console
    /\ i' = i + 1
    /\ UNCHANGED << fs, working_set, output, artifact, pc >>

\* ------------------------------------------------------ humanize.naturalsize

\* round() of the fraction a/b to the nearest integer, ties to even, as the
\* "%.1f" conversion rounds.
RoundHalfEven(a, b) ==
    LET q == a \div b
        r == a % b
    IN IF 2 * r < b THEN q
       ELSE IF 2 * r > b THEN q + 1
       ELSE IF q % 2 = 0 THEN q ELSE q + 1

\* The suffix loop of naturalsize: the index of the first binary suffix
\* (KiB, MiB, ... YiB) whose unit 1024^(index+2) exceeds the value, the last
\* one if none does.  whole is the value's integer part divided by
\* 1024^index.
RECURSIVE suffix_index(_, _)
suffix_index(whole, index) ==
    IF index = 7 \/ whole < 1024 * 1024 THEN index
    ELSE suffix_index(whole \div 1024, index + 1)

\* " KiB", " MiB", ...: the letters K M G T P E Z Y, then "iB".
BinarySuffix(index) ==
    << 32, << 75, 77, 71, 84, 80, 69, 90, 89 >>[index + 1], 105, 66 >>

\* humanize.naturalsize(num/den, binary=True): "1 Byte", "<n> Bytes" below
\* 1024, else the value in the unit of its suffix with one decimal.
naturalsize(num, den) ==
    IF num = den THEN << 49, 32, 66, 121, 116, 101 >>
    ELSE IF num < 1024 * den
    THEN Str(num \div den) \o << 32, 66, 121, 116, 101, 115 >>
    ELSE LET index == suffix_index(num \div den, 0)
             tenths == RoundHalfEven(10 * num, (1024 ^ (index + 1)) * den)
         IN Str(tenths \div 10) \o << 46 >> \o Str(tenths % 10)
                \o BinarySuffix(index)

\* ------------------------------------------------------ format_text_output

\* The sort key with the case kept.
SortKeyCaseSensitive(pkg) == pkg.name

\* Line 82: key=lambda x: x["name"].lower()
SortKey(pkg) == lower(pkg.name)

\* sorted(packages, key=...): a stable sort, here by insertion of each
\* element, in input order, behind every element whose key is not greater.
RECURSIVE insert_sorted(_, _)
insert_sorted(s, x) ==
    IF s = <<>> THEN << x >>
    ELSE IF StrLess(SortKey(x), SortKey(Head(s))) THEN << x >> \o s
    ELSE << Head(s) >> \o insert_sorted(Tail(s), x)

RECURSIVE sorted(_)
sorted(s) ==
    IF s = <<>> THEN <<>>
    ELSE insert_sorted(sorted(SubSeq(s, 1, Len(s) - 1)), s[Len(s)])

\* " | "
Bar == << 32, 124, 32 >>

\* Line 84: f"{pkg['name']} | {pkg['version']} | {size} | {pkg['location']}"
TextLine(pkg) ==
    pkg.name \o Bar \o pkg.version \o Bar \o naturalsize(pkg.size_bytes, 1)
        \o Bar \o pkg.location

\* Lines 77-80: the header; datetime.now() is not interpreted.
TextHeader ==
    << "# Python Packages SBOM",
       "# Generated: <datetime.now().isoformat()>",
       "# Format: name | version | size | location",
       "--------------------------------------------------------------------------------" >>

\* Lines 76-86: the text report, as its lines.
format_text_output(pkgs) ==
    TextHeader \o [k \in 1..Len(pkgs) |-> TextLine(sorted(pkgs)[k])]

\* ------------------------------------------------- generate_cyclonedx_sbom

\* "pkg:pypi/"
PurlPrefix == << 112, 107, 103, 58, 112, 121, 112, 105, 47 >>

\* A component whose purl leaves out the version.
component_purl_without_version(pkg) ==
    [type |-> "library",
     name |-> pkg.name,
     version |-> pkg.version,
     purl |-> PurlPrefix \o pkg.name,
     properties |-> << [name |-> "size", value |-> Str(pkg.size_bytes)],
                       [name |-> "location", value |-> pkg.location] >>]

\* Lines 56-71: the component of one package.
component(pkg) ==
    [type |-> "library",
     name |-> pkg.name,
     version |-> pkg.version,
     purl |-> PurlPrefix \o pkg.name \o << 64 >> \o pkg.version,
     properties |-> << [name |-> "size", value |-> Str(pkg.size_bytes)],
                       [name |-> "location", value |-> pkg.location] >>]

\* Lines 36-74; uuid.uuid4() and datetime.utcnow() are not interpreted.
generate_cyclonedx_sbom(pkgs) ==
    [bomFormat |-> "CycloneDX",
     specVersion |-> "1.4",
     serialNumber |-> "urn:uuid:<uuid.uuid4()>",
     version |-> 1,
     metadata |-> [timestamp |-> "<datetime.utcnow().isoformat()>",
                   tools |-> << [vendor |-> "pysleuth",
                                 name |-> "pysleuth Package Analyzer",
                                 version |-> "1.0.0"] >>],
     components |-> [k \in 1..Len(pkgs) |-> component(pkgs[k])]]

\* ---------------------------------------------------------------- json.dump

\* A JSON string and a JSON number, as the text json.dump writes for them
\* (the model's strings need no escapes; an int is written in decimal).
json_string(s) == [type |-> "string", lit |-> s]

json_number(n) == [type |-> "number", lit |-> Str(n)]

\* One "key": value member of a JSON object; a dict is written in insertion
\* order.
member(key, value) == [key |-> key, value |-> value]

\* json.dump of a package record.
dump_package(pkg) ==
    << member("name", json_string(pkg.name)),
       member("version", json_string(pkg.version)),
       member("size_bytes", json_number(pkg.size_bytes)),
       member("location", json_string(pkg.location)) >>

\* json.dump of the JSON report of lines 96-104.
dump_report(doc) ==
    [metadata |->
        << member("generated_at", json_string(doc.metadata.generated_at)),
           member("total_packages", json_number(doc.metadata.total_packages)),
           member("total_size_bytes", json_number(doc.metadata.total_size_bytes)),
           member("total_size_human", json_string(doc.metadata.total_size_human)) >>,
     packages |-> [k \in 1..Len(doc.packages) |-> dump_package(doc.packages[k])]]

\* json.dump of one CycloneDX component.
dump_component(c) ==
    [members |-> << member("type", json_string(c.type)),
                    member("name", json_string(c.name)),
                    member("version", json_string(c.version)),
                    member("purl", json_string(c.purl)) >>,
     properties |-> [k \in 1..Len(c.properties) |->
                        << member("name", json_string(c.properties[k].name)),
                           member("value", json_string(c.properties[k].value)) >>]]

\* json.dump of the CycloneDX document.
dump_sbom(doc) ==
    [members |-> << member("bomFormat", json_string(doc.bomFormat)),
                    member("specVersion", json_string(doc.specVersion)),
                    member("serialNumber", json_string(doc.serialNumber)),
                    member("version", json_number(doc.version)) >>,
     metadata |-> [timestamp |-> json_string(doc.metadata.timestamp),
                   tools |-> [k \in 1..Len(doc.metadata.tools) |->
                        << member("vendor", json_string(doc.metadata.tools[k].vendor)),
                           member("name", json_string(doc.metadata.tools[k].name)),
                           member("version", json_string(doc.metadata.tools[k].version)) >>]],
     components |-> [k \in 1..Len(doc.components) |-> dump_component(doc.components[k])]]

\* Lines 112-115 and 118-121: a dict goes through json.dump(s), a str is
\* written as it is.
serialize(output_format, doc) ==
    IF output_format = "json" THEN dump_report(doc)
    ELSE IF output_format = "cyclonedx" THEN dump_sbom(doc)
    ELSE doc

\* --------------------------------------------------------- analyze_packages

Formats == {"text", "json", "cyclonedx"}

\* output_file: None, a path that can be opened for writing, and one that
\* cannot (open raises OSError).
OutputFiles == {"None", "report.out", "/missing/report.out"}

Writable(output_file) == output_file = "report.out"

\* Line 92: sum(pkg["size_bytes"] for pkg in packages)
RECURSIVE sum_size_bytes(_)
sum_size_bytes(pkgs) ==
    IF pkgs = <<>> THEN 0 ELSE Head(pkgs).size_bytes + sum_size_bytes(Tail(pkgs))

\* The JSON report with its packages sorted by name.
json_report_sorted(pkgs, total_size, total_packages) ==
    [metadata |-> [generated_at |-> "<datetime.now().isoformat()>",
                   total_packages |-> total_packages,
                   total_size_bytes |-> total_size,
                   total_size_human |-> naturalsize(total_size, 1)],
     packages |-> sorted(pkgs)]

\* Lines 96-104; datetime.now() is not interpreted.
json_report(pkgs, total_size, total_packages) ==
    [metadata |-> [generated_at |-> "<datetime.now().isoformat()>",
                   total_packages |-> total_packages,
                   total_size_bytes |-> total_size,
                   total_size_human |-> naturalsize(total_size, 1)],
     packages |-> pkgs]

\* Lines 95-108
render(output_format, pkgs, total_size, total_packages) ==
    IF output_format = "json" THEN json_report(pkgs, total_size, total_packages)
    ELSE IF output_format = "cyclonedx" THEN generate_cyclonedx_sbom(pkgs)
    ELSE format_text_output(pkgs)

\* One print call.
Printed(stream, kind, text) == [stream |-> stream, kind |-> kind, text |-> text]

\* Lines 116 and 118-121: what goes to standard output once the report is
\* built.
Delivery(output_file) ==
    IF output_file = "None" THEN Printed("stdout", "report", "")
    ELSE Printed("stdout", "Output written to", output_file)

\* Lines 124-127.  Each line is formatted and then printed, so the division
\* of line 127 is evaluated after the first three lines are out; with no
\* package it raises ZeroDivisionError and the fourth line is not printed.
Summary(total_size, total_packages) ==
    << Printed("stderr", "Summary:", <<>>),
       Printed("stderr", "Total packages", Str(total_packages)),
       Printed("stderr", "Total size", naturalsize(total_size, 1)) >>
    \o (IF total_packages = 0 THEN <<>>
        ELSE << Printed("stderr", "Average size",
                        naturalsize(total_size, total_packages)) >>)

NoArtifact == [format |-> "none", dest |-> "none", body |-> <<>>]

\* Lines 92-127: analyze_packages once get_package_sizes has returned.
analyze_packages(output_format, output_file) ==
    /\ pc = "scan"
    /\ i > Len(working_set)
    /\ LET total_size == sum_size_bytes(packages)
           total_packages == Len(packages)
           doc == render(output_format, packages, total_size, total_packages)
       IN /\ output' = doc
          /\ IF output_file # "None" /\ ~Writable(output_file)
             THEN /\ pc' = "OSError"
                  /\ UNCHANGED << artifact, console >>
             ELSE /\ artifact' = [format |-> output_format,
                                  dest |-> IF output_file = "None" THEN "stdout"
                                           ELSE output_file,
                                  body |-> serialize(output_format, doc)]
                  /\ console' = Append(console, Delivery(output_file))
                                    \o Summary(total_size, total_packages)
                  /\ pc' = IF total_packages = 0 THEN "ZeroDivisionError"
                           ELSE "done"
    /\ UNCHANGED << fs, working_set, i, packages >>

\* ------------------------------------------------------------ specification

Init ==
    /\ fs \in [Paths -> DiskEntries]
    /\ working_set \in WorkingSets
    /\ i = 1
    /\ packages = <<>>
    /\ console = <<>>
    /\ output = <<>>
    /\ artifact = NoArtifact
    /\ pc = "scan"

Next ==
    \/ get_package_sizes_step
    \/ \E output_format \in Formats, output_file \in OutputFiles :
            analyze_packages(output_format, output_file)

Spec == Init /\ [][Next]_vars

\* ------------------------------------------------------------------- claims

\* get_package_sizes has returned.
ScanEnded == i > Len(working_set)

\* The prints of one kind on one stream, as positions of console.
Positions(stream, kind) ==
    { k \in 1..Len(console) : console[k].stream = stream /\ console[k].kind = kind }

\* The report went to its destination.
Delivered == artifact.dest # "none"

\* Neither candidate directory of the distribution exists.
Unresolvable(dist) ==
    /\ fs[CandidateA(dist)].kind = "absent"
    /\ fs[CandidateB(dist)].kind = "absent"

\* C1: when the scan yields no package record, analyze_packages completes
\* without a division error, whatever the format and the destination, and
\* prints the average-size line of the summary.
C1_ZeroPackagesNoDivisionError ==
    (Len(packages) = 0 /\ Delivered)
        => (pc = "done" /\ Positions("stderr", "Average size") # {})

\* What get_package_sizes has to return for an enumeration: the record of
\* every distribution that resolves and is walked without error, in order.
RECURSIVE RecordsOfClean(_)
RecordsOfClean(dists) ==
    IF dists = <<>> THEN <<>>
    ELSE (IF try_dist(Head(dists)).outcome = "record"
          THEN << try_dist(Head(dists)).record >> ELSE <<>>)
         \o RecordsOfClean(Tail(dists))

\* C2: an error on one package never aborts the scan: after every iteration
\* the list holds, in enumeration order and once each, exactly the records
\* of the distributions enumerated so far that did not fail, each the record
\* it has when scanned alone; when the scan has ended that is the whole
\* enumeration.
C2_FailureNeverAbortsScan ==
    /\ i <= Len(working_set) + 1
    /\ packages = RecordsOfClean(SubSeq(working_set, 1, i - 1))
    /\ (pc # "scan" => ScanEnded)

\* A scan that ended with a record of a package enumerated after one that
\* raised.
C2_RecordAfterFailure ==
    /\ ScanEnded
    /\ \E j, k \in 1..Len(working_set) :
        /\ j < k
        /\ try_dist(working_set[j]).outcome = "raised"
        /\ try_dist(working_set[k]).outcome = "record"
        /\ packages = RecordsOfClean(working_set)
        /\ Len(packages) >= 1

\* C3: scanning N packages of which exactly one has neither candidate
\* directory, the others scanning cleanly, yields N-1 records and exactly
\* one logged warning, which names that package.
C3_UnresolvableWarnsOnce ==
    (/\ ScanEnded
     /\ \E j \in 1..Len(working_set) :
            /\ Unresolvable(working_set[j])
            /\ \A k \in 1..Len(working_set) :
                   k # j => try_dist(working_set[k]).outcome = "record")
        => /\ Len(packages) = Len(working_set) - 1
           /\ \E j \in 1..Len(working_set) :
                /\ Unresolvable(working_set[j])
                /\ \E w \in 1..Len(console) :
                    /\ Positions("stdout", "[!] Error reading")
                            \cup Positions("stderr", "[!] Error reading") = {w}
                    /\ console[w].text = working_set[j].project_name

\* C4: in every invocation that delivers the report, the full summary
\* (package count, total size, average size) is printed to standard error,
\* after the report was printed to standard output or, with a destination,
\* after the confirmation of the written file.
C4_FullSummaryAfterDelivery ==
    Delivered =>
        \E d \in Positions("stdout", "report")
                    \cup Positions("stdout", "Output written to") :
            \A kind \in {"Total packages", "Total size", "Average size"} :
                \E k \in Positions("stderr", kind) : k > d

\* C5: standard output carries only the report or the write confirmation,
\* never a warning of the scan.
C5_NoWarningOnStdout ==
    \A k \in 1..Len(console) :
        console[k].stream = "stdout"
            => console[k].kind \in {"report", "Output written to"}

\* The permutations of 1..n.
Perms(n) ==
    { p \in [1..n -> 1..n] : \A a, b \in 1..n : p[a] = p[b] => a = b }

\* C6: the text report is the four header lines and then one line per
\* record, duplicates kept, in ascending order of the lowercased name;
\* records whose names are equal ignoring case keep their input order.
C6_TextBodySortedStable ==
    artifact.format = "text" =>
        /\ Len(output) = 4 + Len(packages)
        /\ SubSeq(output, 1, 4) = TextHeader
        /\ \E p \in Perms(Len(packages)) :
            /\ \A k \in 1..Len(packages) :
                    output[4 + k] = TextLine(packages[p[k]])
            /\ \A k, l \in 1..Len(packages) :
                    k < l =>
                        /\ ~StrLess(lower(packages[p[l]].name),
                                    lower(packages[p[k]].name))
                        /\ (lower(packages[p[l]].name) = lower(packages[p[k]].name)
                                => p[k] < p[l])

\* A text report whose input had to be reordered.
C6_TextReordered ==
    /\ artifact.format = "text"
    /\ Len(packages) >= 2
    /\ StrLess(lower(packages[2].name), lower(packages[1].name))
    /\ output[5] = TextLine(packages[2])

\* int(): a decimal literal read back.
RECURSIVE ParseInt(_)
ParseInt(s) ==
    IF s = <<>> THEN 0
    ELSE 10 * ParseInt(SubSeq(s, 1, Len(s) - 1)) + (s[Len(s)] - 48)

\* The value of a key of a written JSON object.
Field(obj, key) ==
    LET k == CHOOSE k \in 1..Len(obj) : obj[k].key = key IN obj[k].value

\* json.load of a written package object.
load_package(obj) ==
    [name |-> Field(obj, "name").lit,
     version |-> Field(obj, "version").lit,
     size_bytes |-> ParseInt(Field(obj, "size_bytes").lit),
     location |-> Field(obj, "location").lit]

\* The packages array of the written JSON report, parsed.
ParsedPackages ==
    [k \in 1..Len(artifact.body.packages) |-> load_package(artifact.body.packages[k])]

RECURSIVE SumOfSizes(_, _)
SumOfSizes(pkgs, n) ==
    IF n = 0 THEN 0 ELSE pkgs[n].size_bytes + SumOfSizes(pkgs, n - 1)

\* C7: parsing the JSON report gives back the scanned records: same length,
\* same order, same four fields each; and metadata.total_packages and
\* metadata.total_size_bytes are the count and the sum of size_bytes of that
\* array.
C7_JsonRoundTrip ==
    artifact.format = "json" =>
        /\ Len(ParsedPackages) = Len(packages)
        /\ \A k \in 1..Len(packages) :
            /\ Len(artifact.body.packages[k]) = 4
            /\ ParsedPackages[k] = packages[k]
        /\ Field(artifact.body.metadata, "total_packages").type = "number"
        /\ ParseInt(Field(artifact.body.metadata, "total_packages").lit)
                = Len(ParsedPackages)
        /\ Field(artifact.body.metadata, "total_size_bytes").type = "number"
        /\ ParseInt(Field(artifact.body.metadata, "total_size_bytes").lit)
                = SumOfSizes(ParsedPackages, Len(ParsedPackages))

\* A JSON report of two records of different sizes that are not in name
\* order.
C7_JsonUnsortedRecords ==
    /\ artifact.format = "json"
    /\ Len(packages) >= 2
    /\ StrLess(lower(packages[2].name), lower(packages[1].name))
    /\ packages[1].size_bytes # packages[2].size_bytes
    /\ ParsedPackages[1].name = packages[1].name

\* C8: the CycloneDX document has one component per record, in input order,
\* of type "library", with the record's name and version, the purl
\* pkg:pypi/<name>@<version> of that record, and exactly two properties:
\* size, the size in bytes as a decimal string, and location.
C8_ComponentPerRecord ==
    artifact.format = "cyclonedx" =>
        /\ Len(output.components) = Len(packages)
        /\ \A k \in 1..Len(packages) :
            LET c == output.components[k]
                pkg == packages[k]
            IN /\ c.type = "library"
               /\ c.name = pkg.name
               /\ c.version = pkg.version
               /\ c.purl = << 112, 107, 103, 58, 112, 121, 112, 105, 47 >>
                            \o pkg.name \o << 64 >> \o pkg.version
               /\ Len(c.properties) = 2
               /\ c.properties[1].name = "size"
               /\ ParseInt(c.properties[1].value) = pkg.size_bytes
               /\ \A d \in 1..Len(c.properties[1].value) :
                    c.properties[1].value[d] \in 48..57
               /\ c.properties[2].name = "location"
               /\ c.properties[2].value = pkg.location

\* A CycloneDX document of two records with different names and versions.
C8_TwoComponents ==
    /\ artifact.format = "cyclonedx"
    /\ Len(packages) >= 2
    /\ packages[1].name # packages[2].name
    /\ packages[1].version # packages[2].version
    /\ Len(output.components) >= 2

\* The two candidate directories of each project name, written out:
\* "/s/a_C" and "/s/a-c" for "a-C", "/s/B" and "/s/b" for "B", "/s/b" twice
\* for "b".
FirstCandidate(name) ==
    CASE name = Name_aC -> << 47, 115, 47, 97, 95, 67 >>
      [] name = Name_B -> << 47, 115, 47, 66 >>
      [] name = Name_b -> << 47, 115, 47, 98 >>

SecondCandidate(name) ==
    CASE name = Name_aC -> << 47, 115, 47, 97, 45, 99 >>
      [] name = Name_B -> << 47, 115, 47, 98 >>
      [] name = Name_b -> << 47, 115, 47, 98 >>

\* C9: a record's location is the install root joined with the project name
\* with hyphens replaced by underscores if that directory exists, else the
\* root joined with the lowercased name; it exists; and a distribution with
\* neither directory has no record.
C9_LocationIsFirstExistingCandidate ==
    /\ \A k \in 1..Len(packages) :
        LET r == packages[k] IN
        /\ fs[r.location].kind = "dir"
        /\ IF fs[FirstCandidate(r.name)].kind = "dir"
           THEN r.location = FirstCandidate(r.name)
           ELSE r.location = SecondCandidate(r.name)
    /\ \A j \in 1..(i - 1) :
        (/\ fs[FirstCandidate(working_set[j].project_name)].kind # "dir"
         /\ fs[SecondCandidate(working_set[j].project_name)].kind # "dir")
            => \A k \in 1..Len(packages) :
                    packages[k].name # working_set[j].project_name

\* A record located by the lowercased name because the first candidate is
\* missing, beside a distribution that has neither directory.
C9_FallbackUsed ==
    /\ ScanEnded
    /\ \E k \in 1..Len(packages) :
        /\ packages[k].location = SecondCandidate(packages[k].name)
        /\ SecondCandidate(packages[k].name) # FirstCandidate(packages[k].name)
        /\ fs[FirstCandidate(packages[k].name)].kind = "absent"
    /\ \E j \in 1..Len(working_set) : Unresolvable(working_set[j])

\* The bytes of the regular files of a tree, symbolic links not followed.
RECURSIVE RegularFileBytes(_)
RegularFileBytes(entries) ==
    IF entries = <<>> THEN 0
    ELSE (IF Head(entries).kind = "file" THEN Head(entries).size
          ELSE IF Head(entries).kind = "dir" THEN RegularFileBytes(Head(entries).entries)
          ELSE 0)
         + RegularFileBytes(Tail(entries))

\* C10: a record's size_bytes is the sum of the sizes of the regular files
\* under its location; a symbolic link, to a file or to a directory, and a
\* special file add nothing.
C10_SizeCountsRegularFilesOnly ==
    \A k \in 1..Len(packages) :
        packages[k].size_bytes = RegularFileBytes(fs[packages[k].location].entries)

====
